---------------------------- MODULE Spec2Model ----------------------------
(***************************************************************************)
(* A model of the main process of dext (src/app/main/index.js): the query  *)
(* dispatch and ranking engine (handleQueryCommand), the item-details      *)
(* cache (handleItemDetailsRequest), the execution of an item (execute)    *)
(* and the debounced IPC listeners (registerIpcListeners).                 *)
(*                                                                         *)
(* Strings are modelled at the granularity of "chunks": a query phrase is  *)
(* a sequence of chunks, each either one space " " or a run of non-space   *)
(* characters.  Scores are the scorer's values in thousandths.             *)
(***************************************************************************)
EXTENDS Integers, Sequences, FiniteSets, TLC

(***************************************************************************)
(* Bounds of the model.                                                    *)
(***************************************************************************)
\* longest plugin list drawn by InitRoute
MaxPlugins == 3
\* longest query phrase, in chunks
MaxPhraseLen == 3
\* most items the providers of one query return, all together
MaxItems == 3

\* most invocations of handleItemDetailsRequest in one behaviour
MaxDetails == 3

\* most IPC messages and clock ticks, all together, in one behaviour
MaxEvents == 5

\* most invocations of handleQueryCommand in one behaviour of SpecInFlight
MaxQueries == 2

\* most invocations of execute in one behaviour
MaxExecutes == 2

\* DEBOUNCE_TIME of app/constants, imported at line 30, in clock ticks: the
\* model debounces over two ticks
DEBOUNCE_TIME == 2

\* MAX_RESULTS of app/constants, imported at line 30: the model caps the
\* response at two items
MAX_RESULTS == 2

\* the chunks query phrases are built from
Chunks == {"calc", "gh", "2+2", " "}

\* the keywords a plugin may declare
Keywords == {"calc", "gh"}

\* the items whose details are requested: two plugins of the same base name
\* return an item of the same title, and one of them returns a second item
DetailItems ==
  {[title |-> "2+2=4", plugin |-> [path |-> <<"core", "calc">>]],
   [title |-> "2+2=4", plugin |-> [path |-> <<"plugins", "calc">>]],
   [title |-> "pi", plugin |-> [path |-> <<"core", "calc">>]]}

\* the contents retrieveItemDetails resolves with
Contents == {"<p>a</p>", "<p>b</p>"}

\* the messages of the IPC channels in SpecDebounce: { q } query commands,
\* items whose details are requested, and items to copy, whose text.copy is
\* unset, empty or set
QueryMessages == {[q |-> <<"calc">>], [q |-> <<"calc", " ", "2+2">>]}
RequestedItems == {item \in DetailItems : item.title = "2+2=4"}
CopyItems ==
  {[arg |-> "4", text |-> <<>>],
   [arg |-> "4", text |-> <<[copy |-> <<"">>]>>],
   [arg |-> "4", text |-> <<[copy |-> <<"2+2=4">>]>>]}

\* the debounced handlers of registerIpcListeners
Handlers == {"query", "details", "copy"}

\* the plugin list of the example of the specification: a core plugin
\* without keyword and a user plugin with the keyword "calc"
ExamplePlugins ==
  <<[isCore |-> TRUE, keyword |-> <<>>], [isCore |-> FALSE, keyword |-> <<"calc">>]>>

\* the titles of the items the providers return
Titles == {"Calc", "calc", "Calculator", "ocean salty x co", "GitHub"}

(***************************************************************************)
(* State.                                                                  *)
(***************************************************************************)
VARIABLES
  plugins,   \* the loaded plugin list handed to registerIpcListeners
  queries,   \* one record per invocation of handleQueryCommand, in order
  sent,      \* the messages sent back to the renderer, in order
  cache,     \* the CacheConf stores: config name -> (key -> content)
  details,   \* one record per invocation of handleItemDetailsRequest, in order
  stored,    \* history: payload -> the content last stored for it in this run
  clipboard, \* the text handleCopyItemToClipboard wrote last
  timers,    \* the timer of each debounced handler: <<>>, or <<[args, remaining]>>
  log,       \* history: the IPC messages, clock ticks and handler invocations
  executions \* one record per invocation of execute, in order

vars == <<plugins, queries, sent, cache, details, stored, clipboard, timers, log, executions>>

(***************************************************************************)
(* Plugin descriptors { path, isCore, keyword }.  An optional field is a   *)
(* sequence: <<>> when the field is unset, <<v>> when it is set to v.      *)
(***************************************************************************)
Descriptors ==
  [isCore : BOOLEAN, keyword : {<<>>} \cup {<<k>> : k \in Keywords}]

SeqsUpTo(S, n) == UNION {[1..m -> S] : m \in 0..n}

Phrases == SeqsUpTo(Chunks, MaxPhraseLen)

\* the plugin lists and the phrases of SpecQuery, where the provider results
\* vary: every list of at most two plugins, every phrase of one chunk or
\* none, and one phrase with an argument
QueryPluginLists == {<<>>} \cup [1..1 -> Descriptors] \cup [1..2 -> Descriptors]
QueryPhrases == {<<>>} \cup [1..1 -> Chunks] \cup {<<"calc", " ", "2+2">>}

(***************************************************************************)
(* queryPhrase.split(' '): the tokens between the spaces; two adjacent     *)
(* spaces, or a space at either end, give an empty token.                  *)
(***************************************************************************)
RECURSIVE SplitFrom(_, _, _, _)
SplitFrom(s, i, cur, acc) ==
  IF i > Len(s) THEN Append(acc, cur)
  ELSE IF s[i] = " " THEN SplitFrom(s, i + 1, "", Append(acc, cur))
  ELSE SplitFrom(s, i + 1, cur \o s[i], acc)

Split(s) == SplitFrom(s, 1, "", <<>>)

\* args.join(' '): the tokens with one space between each two
RECURSIVE Join(_)
Join(toks) ==
  IF toks = <<>> THEN <<>>
  ELSE IF Len(toks) = 1 THEN <<toks[1]>>
  ELSE <<toks[1], " ">> \o Join(Tail(toks))

\* a piece that trim() removes at either end: a space, or nothing at all
Blank(piece) == piece \in {" ", ""}

\* String.prototype.trim on a joined string
RECURSIVE TrimLeft(_)
TrimLeft(s) ==
  IF s # <<>> /\ Blank(s[1]) THEN TrimLeft(Tail(s)) ELSE s

RECURSIVE TrimRight(_)
TrimRight(s) ==
  IF s # <<>> /\ Blank(s[Len(s)]) THEN TrimRight(SubSeq(s, 1, Len(s) - 1)) ELSE s

Trim(s) == TrimRight(TrimLeft(s))

\* const fractions = queryPhrase.split(' ')
Fractions(phrase) == Split(phrase)
\* const [keyword, ...args] = fractions
KeywordOf(phrase) == Fractions(phrase)[1]
ArgsOf(phrase) == Tail(Fractions(phrase))
\* const queryString = args.join(' ').trim()
QueryString(phrase) == Trim(Join(ArgsOf(phrase)))

(***************************************************************************)
(* Routing.                                                                *)
(***************************************************************************)
\* !p.keyword || keyword === p.keyword
KeywordTest(p, keyword) == p.keyword = <<>> \/ p.keyword = <<keyword>>

\* Array.prototype.filter, on the sequence of the callback's answers: the
\* indices, in order, where the answer is true
FilterIdx(answers) ==
  LET f[i \in 0..Len(answers)] ==
        IF i = 0 THEN <<>>
        ELSE IF answers[i] THEN Append(f[i - 1], i) ELSE f[i - 1]
  IN  f[Len(answers)]

\* a mutant of MatchedPlugins: the filter forgets the keyword
MatchedPluginsAll(ps, keyword) == [i \in 1..Len(ps) |-> i]

\* !p.keyword is forgotten
KeywordOnlyTest(p, keyword) == p.keyword = <<keyword>>

\* a mutant of MatchedPlugins: only the plugins that declare the keyword
MatchedPluginsKeywordOnly(ps, keyword) == FilterIdx([i \in 1..Len(ps) |-> KeywordOnlyTest(ps[i], keyword)])

\* plugins.filter(p => !p.keyword || keyword === p.keyword)
MatchedPlugins(ps, keyword) == FilterIdx([i \in 1..Len(ps) |-> KeywordTest(ps[i], keyword)])

\* a mutant of Display: a keyword plugin is never asked for its helper
DisplayNoHelper(p, keyword, queryString) == "results"

\* let display = 'results'; if (...) display = 'results'; else if (...) display = 'helper'
Display(p, keyword, queryString) ==
  IF p.isCore /\ KeywordTest(p, keyword) THEN "results"
  ELSE IF p.keyword # <<>> /\ Len(queryString) = 0 THEN "helper"
  ELSE "results"

\* a mutant of ProviderCall: every plugin gets the arguments after the keyword
ProviderCallArgs(ps, i, phrase) ==
  [plugin |-> i, fn |-> "queryResults", args |-> ArgsOf(phrase)]

\* a mutant of ProviderCall: a results call always gets the full token list
ProviderCallFractions(ps, i, phrase) ==
  IF Display(ps[i], KeywordOf(phrase), QueryString(phrase)) = "helper"
  THEN [plugin |-> i, fn |-> "queryHelper", args |-> <<KeywordOf(phrase)>>]
  ELSE [plugin |-> i, fn |-> "queryResults", args |-> Fractions(phrase)]

\* the provider call of the switch statement for one matched plugin
ProviderCall(ps, i, phrase) ==
  IF Display(ps[i], KeywordOf(phrase), QueryString(phrase)) = "helper"
  THEN [plugin |-> i, fn |-> "queryHelper", args |-> <<KeywordOf(phrase)>>]
  ELSE IF ps[i].keyword = <<>>
  THEN [plugin |-> i, fn |-> "queryResults", args |-> Fractions(phrase)]
  ELSE [plugin |-> i, fn |-> "queryResults", args |-> ArgsOf(phrase)]

\* plugin.isCore && (!plugin.keyword || keyword === plugin.keyword)
CoreTest(p, keyword) == p.isCore /\ KeywordTest(p, keyword)

\* the else branch: a regular query to the core plugins
FallbackCalls(ps, phrase) ==
  LET core == FilterIdx([i \in 1..Len(ps) |-> CoreTest(ps[i], KeywordOf(phrase))])
  IN  [j \in 1..Len(core) |->
         [plugin |-> core[j], fn |-> "queryResults", args |-> Fractions(phrase)]]

\* the provider calls handleQueryCommand pushes on results, in order
IssuedCalls(ps, phrase) ==
  LET matched == MatchedPlugins(ps, KeywordOf(phrase))
  IN  IF Len(matched) > 0
      THEN [j \in 1..Len(matched) |-> ProviderCall(ps, matched[j], phrase)]
      ELSE FallbackCalls(ps, phrase)

(***************************************************************************)
(* Ranking.                                                                *)
(***************************************************************************)
\* the result items a provider may return
Items == [title : Titles]

\* an item a provider returns without a title
UntitledItems == {[arg |-> "4"]}

\* the item has a title to call toLowerCase on
HasTitle(item) == "title" \in DOMAIN item

\* String.prototype.toLowerCase on a title
ToLowerCase(t) ==
  CASE t = "Calc" -> "calc"
    [] t = "Calculator" -> "calculator"
    [] t = "GitHub" -> "github"
    [] OTHER -> t

\* String.prototype.score of string_score, in thousandths, on the strings of
\* the model: 1 for the word itself, 0 for the empty word and for a word
\* whose letters the string does not hold in order
StringScore(str, word) ==
  IF str = word THEN 1000
  ELSE IF word = "" THEN 0
  ELSE CASE word = "calc" /\ str = "calculator" -> 710
         [] word = "calc" /\ str = "ocean salty x co" -> 250
         [] word = "gh" /\ str = "github" -> 483
         [] OTHER -> 0

\* a.title.toLowerCase().score(keyword)
Score(item, keyword) == StringScore(ToLowerCase(item.title), keyword)

\* resultSet.reduce((prev, next) => prev.concat(next)), on a non-empty resultSet
RECURSIVE Flatten(_)
Flatten(resultSet) ==
  IF Len(resultSet) = 1 THEN resultSet[1]
  ELSE Flatten(SubSeq(resultSet, 1, Len(resultSet) - 1)) \o resultSet[Len(resultSet)]

\* a mutant of Compare: the comparator ranks the lower score first
CompareAscending(a, b, keyword) ==
  IF Score(a, keyword) = Score(b, keyword) THEN 0
  ELSE IF Score(a, keyword) < Score(b, keyword) THEN 0 - 1
  ELSE 1

\* the comparator handed to sort
Compare(a, b, keyword) ==
  IF Score(a, keyword) = Score(b, keyword) THEN 0
  ELSE IF Score(a, keyword) < Score(b, keyword) THEN 1
  ELSE 0 - 1

\* one step of the insertion sort: e moves left past every element the
\* comparator orders after it
RECURSIVE Insert(_, _, _)
Insert(sorted, e, keyword) ==
  IF sorted # <<>> /\ Compare(sorted[Len(sorted)], e, keyword) > 0
  THEN Append(Insert(SubSeq(sorted, 1, Len(sorted) - 1), e, keyword),
              sorted[Len(sorted)])
  ELSE Append(sorted, e)

\* Array.prototype.sort with the comparator
RECURSIVE Sort(_, _)
Sort(s, keyword) ==
  IF s = <<>> THEN <<>>
  ELSE Insert(Sort(SubSeq(s, 1, Len(s) - 1), keyword), s[Len(s)], keyword)

\* a mutant of Keep: the threshold itself passes
KeepFromThreshold(score) == IF score # 0 THEN score >= 250 ELSE TRUE

\* Boolean(score) ? score > 0.25 : true
Keep(score) == IF score # 0 THEN score > 250 ELSE TRUE

\* the filter callback, over the sorted items
RelevanceFilter(s, keyword) ==
  LET f[i \in 0..Len(s)] ==
        IF i = 0 THEN <<>>
        ELSE IF Keep(Score(s[i], keyword)) THEN Append(f[i - 1], s[i])
        ELSE f[i - 1]
  IN  f[Len(s)]

\* a mutant of Slice: the cut is one item late
SliceLate(s) == SubSeq(s, 1, IF Len(s) < MAX_RESULTS + 1 THEN Len(s) ELSE MAX_RESULTS + 1)

\* .slice(0, MAX_RESULTS)
Slice(s) == SubSeq(s, 1, IF Len(s) < MAX_RESULTS THEN Len(s) ELSE MAX_RESULTS)

\* retval of the then-callback: each method of the chain is applied to the
\* value the method before it returned
Retval(resultSet, keyword) ==
  CHOOSE retval \in
    {Slice(filtered) : filtered \in
      {RelevanceFilter(sorted, keyword) : sorted \in
        {Sort(merged, keyword) : merged \in {Flatten(resultSet)}}}} : TRUE

(***************************************************************************)
(* The promises of a query.                                                *)
(***************************************************************************)
Pending == [st |-> "pending", items |-> <<>>]
Resolved(items) == [st |-> "resolved", items |-> items]
Rejected == [st |-> "rejected", items |-> <<>>]

\* a mutant of AllResolved: the join settles with the first value
AnyResolved(q) ==
  \E c \in 1..Len(queries[q].out) : queries[q].out[c].st = "resolved"

\* every provider promise of query q is resolved: Promise.all resolves
AllResolved(q) ==
  \A c \in 1..Len(queries[q].out) : queries[q].out[c].st = "resolved"

\* a mutant of CallbackQueued: a rejected provider counts as one that
\* returned nothing
CallbackQueuedSettled(q) ==
  /\ queries[q].status \in {"waiting", "rejected"}
  /\ \A c \in 1..Len(queries[q].out) : queries[q].out[c].st # "pending"

\* a mutant of CallbackQueued: the callback waits for the queries dispatched
\* before it
CallbackQueuedInOrder(q) ==
  /\ queries[q].status = "waiting"
  /\ \A c \in 1..Len(queries[q].out) : queries[q].out[c].st = "resolved"
  /\ \A e \in 1..(q - 1) : queries[e].status # "waiting"

\* the then-callback of query q is queued as a microtask
CallbackQueued(q) == queries[q].status = "waiting" /\ AllResolved(q)

\* a microtask is queued: it runs before any other event is handled
MicrotaskQueued ==
  \/ \E q \in 1..Len(queries) : CallbackQueued(q)
  \/ \E r \in 1..Len(details) : details[r].status = "queued"

\* the number of items the providers of query q have returned so far
RECURSIVE Returned(_, _)
Returned(out, c) ==
  IF c = 0 THEN 0 ELSE Len(out[c].items) + Returned(out, c - 1)

(***************************************************************************)
(* Actions.                                                                *)
(***************************************************************************)
\* a mutant of HandleQueryCommand: a new query cancels the ones in flight
HandleQueryCommandCancelling(evt, phrase) ==
  /\ ~MicrotaskQueued
  /\ LET calls == IssuedCalls(plugins, phrase)
         cancelled == [q \in 1..Len(queries) |->
           IF queries[q].status = "waiting"
           THEN [queries[q] EXCEPT !.status = "cancelled"] ELSE queries[q]]
     IN  queries' = Append(cancelled,
           [evt |-> evt,
            fractions |-> Fractions(phrase),
            calls |-> calls,
            out |-> [c \in 1..Len(calls) |-> Pending],
            done |-> <<>>,
            status |-> "waiting"])
  /\ UNCHANGED <<plugins, sent, cache, details, stored, clipboard, executions>>

\* handleQueryCommand up to the registration of the then-callback
HandleQueryCommand(evt, phrase) ==
  /\ ~MicrotaskQueued
  /\ LET calls == IssuedCalls(plugins, phrase)
     IN  queries' = Append(queries,
           [evt |-> evt,
            fractions |-> Fractions(phrase),
            calls |-> calls,
            out |-> [c \in 1..Len(calls) |-> Pending],
            done |-> <<>>,
            status |-> "waiting"])
  /\ UNCHANGED <<plugins, sent, cache, details, stored, clipboard, executions>>

\* the promise of provider call c of query q resolves with items
ProviderResolve(q, c, items) ==
  /\ ~MicrotaskQueued
  /\ queries[q].out[c].st = "pending"
  /\ queries' = [queries EXCEPT ![q].out[c] = Resolved(items),
                                ![q].done = Append(@, c)]
  /\ UNCHANGED <<plugins, sent, cache, details, stored, clipboard, timers, log, executions>>

\* the promise of provider call c of query q rejects: Promise.all rejects
\* with it, and the then-callback of the query is never called
ProviderReject(q, c) ==
  /\ ~MicrotaskQueued
  /\ queries[q].out[c].st = "pending"
  /\ queries' = [queries EXCEPT ![q].out[c] = Rejected,
                                ![q].status = "rejected"]
  /\ UNCHANGED <<plugins, sent, cache, details, stored, clipboard, timers, log, executions>>

\* a mutant of ResultSet: the values are in the order the promises resolved
ResultSetByCompletion(q) ==
  [k \in 1..Len(queries[q].done) |-> queries[q].out[queries[q].done[k]].items]

\* the resultSet Promise.all resolves with: the values of the promises, in
\* the order of the array handed to it
ResultSet(q) == [c \in 1..Len(queries[q].out) |-> queries[q].out[c].items]

\* the then-callback throws a TypeError: reduce without an initial value on
\* an empty resultSet, or title.toLowerCase() on an item without a title,
\* which the filter callback evaluates for every item
Throws(resultSet) ==
  \/ resultSet = <<>>
  \/ \E i \in 1..Len(Flatten(resultSet)) : ~HasTitle(Flatten(resultSet)[i])

\* the then-callback of Promise.all: when it throws, nothing is sent
ThenCallback(q) ==
  /\ CallbackQueued(q)
  /\ LET resultSet == ResultSet(q)
         keyword == queries[q].fractions[1]
     IN  IF Throws(resultSet)
         THEN /\ queries' = [queries EXCEPT ![q].status = "threw"]
              /\ UNCHANGED sent
         ELSE /\ queries' = [queries EXCEPT ![q].status = "delivered"]
              /\ sent' = Append(sent,
                   [channel |-> "IPC_QUERY_RESULTS", to |-> queries[q].evt,
                    id |-> q, payload |-> Retval(resultSet, keyword)])
  /\ UNCHANGED <<plugins, cache, details, stored, clipboard, timers, log, executions>>

(***************************************************************************)
(* Item details and their cache.                                           *)
(***************************************************************************)
\* path.basename(item.plugin.path)
Basename(path) == path[Len(path)]

\* const configName = `${path.basename(item.plugin.path)}-itemDetails`
ConfigName(item) == <<Basename(item.plugin.path), "-itemDetails">>

\* const cacheKey = JSON.stringify(item): the fields and their values, in order
CacheKey(item) == <<"title", item.title, "plugin", <<"path", item.plugin.path>>>>

\* CacheConf: has, get and set on the store of one config name
CacheHas(cfg, key) == cfg \in DOMAIN cache /\ key \in DOMAIN cache[cfg]
CacheGet(cfg, key) == cache[cfg][key]
CacheSet(cfg, key, html) ==
  (cfg :> ((key :> html) @@ (IF cfg \in DOMAIN cache THEN cache[cfg] ELSE <<>>)))
    @@ cache

\* a mutant of CacheHit: the store is looked up under the plugin's whole path
CacheHitByPath(item) == CacheHas(item.plugin.path, CacheKey(item))

\* if (cacheConf.has(cacheKey))
CacheHit(item) == CacheHas(ConfigName(item), CacheKey(item))

\* handleItemDetailsRequest up to the registration of the then-callback:
\* on a hit the content is the cached one and the callback is queued at
\* once, on a miss retrieveItemDetails is called and its promise is awaited
HandleItemDetailsRequest(evt, item) ==
  /\ ~MicrotaskQueued
  /\ details' = Append(details,
       IF CacheHit(item)
       THEN [evt |-> evt, item |-> item, retrieved |-> FALSE,
             content |-> <<CacheGet(ConfigName(item), CacheKey(item))>>,
             status |-> "queued",
             seen |-> IF item \in DOMAIN stored THEN <<stored[item]>> ELSE <<>>]
       ELSE [evt |-> evt, item |-> item, retrieved |-> TRUE,
             content |-> <<>>,
             status |-> "pending",
             seen |-> IF item \in DOMAIN stored THEN <<stored[item]>> ELSE <<>>])
  /\ UNCHANGED <<plugins, queries, sent, cache, stored, clipboard, executions>>

\* the promise of retrieveItemDetails for request r resolves with html
DetailResolve(r, html) ==
  /\ ~MicrotaskQueued
  /\ details[r].status = "pending"
  /\ details' = [details EXCEPT ![r].content = <<html>>, ![r].status = "queued"]
  /\ UNCHANGED <<plugins, queries, sent, cache, stored, clipboard, timers, log, executions>>

\* the promise of retrieveItemDetails for request r rejects: the
\* then-callback is never called
DetailReject(r) ==
  /\ ~MicrotaskQueued
  /\ details[r].status = "pending"
  /\ details' = [details EXCEPT ![r].status = "rejected"]
  /\ UNCHANGED <<plugins, queries, sent, cache, stored, clipboard, timers, log, executions>>

\* a mutant of DetailCallback: an entry of the cache is never overwritten
DetailCallbackKeepFirst(r) ==
  /\ details[r].status = "queued"
  /\ LET item == details[r].item
         html == details[r].content[1]
     IN  /\ cache' = (IF CacheHit(item) THEN cache
                      ELSE CacheSet(ConfigName(item), CacheKey(item), html))
         /\ stored' = (IF CacheHit(item) THEN stored ELSE (item :> html) @@ stored)
         /\ sent' = Append(sent,
              [channel |-> "IPC_ITEM_DETAILS_RESPONSE", to |-> details[r].evt,
               id |-> r, payload |-> html])
  /\ details' = [details EXCEPT ![r].status = "delivered"]
  /\ UNCHANGED <<plugins, queries, clipboard, timers, log, executions>>

\* a mutant of DetailCallback: the content is sent and not stored
DetailCallbackSendOnly(r) ==
  /\ details[r].status = "queued"
  /\ sent' = Append(sent,
       [channel |-> "IPC_ITEM_DETAILS_RESPONSE", to |-> details[r].evt,
        id |-> r, payload |-> details[r].content[1]])
  /\ details' = [details EXCEPT ![r].status = "delivered"]
  /\ UNCHANGED <<plugins, queries, cache, stored, clipboard, timers, log, executions>>

\* the then-callback of Promise.resolve(content): store, then send
DetailCallback(r) ==
  /\ details[r].status = "queued"
  /\ LET item == details[r].item
         html == details[r].content[1]
     IN  /\ cache' = CacheSet(ConfigName(item), CacheKey(item), html)
         /\ stored' = (item :> html) @@ stored
         /\ sent' = Append(sent,
              [channel |-> "IPC_ITEM_DETAILS_RESPONSE", to |-> details[r].evt,
               id |-> r, payload |-> html])
  /\ details' = [details EXCEPT ![r].status = "delivered"]
  /\ UNCHANGED <<plugins, queries, clipboard, timers, log, executions>>

(***************************************************************************)
(* The clipboard.                                                          *)
(***************************************************************************)
\* item.text && item.text.copy: set and not the empty string
HasCopyText(item) ==
  /\ item.text # <<>>
  /\ item.text[1].copy # <<>>
  /\ item.text[1].copy[1] # ""

\* handleCopyItemToClipboard
HandleCopyItemToClipboard(evt, item) ==
  /\ ~MicrotaskQueued
  /\ clipboard' = (IF HasCopyText(item) THEN item.text[1].copy[1] ELSE item.arg)
  /\ UNCHANGED <<plugins, queries, sent, cache, details, stored, executions>>

(***************************************************************************)
(* Execution of an item.  A message is { action, item, isSuperMod,         *)
(* isAltMod }; item.mods.cmd.arg and item.mods.alt.arg are optional: unset,*)
(* or set to a string that may be empty.                                   *)
(***************************************************************************)
\* the names the actions module exports a handler under
Actions == {"openurl"}

\* the values of an optional argument
OptionalArgs(v) == {<<>>, <<"">>, <<v>>}

\* the messages of the IPC_EXECUTE_ITEM channel
ExecuteMessages ==
  [action : {"openurl", "nosuch"},
   isSuperMod : BOOLEAN,
   isAltMod : BOOLEAN,
   item : [arg : {"a"},
           mods : [cmd : [arg : OptionalArgs("c")], alt : [arg : OptionalArgs("b")]]]]

\* getOwnProp(message, 'item.mods.<modifier>.arg'): the value at the path,
\* or undefined
GetOwnProp(message, modifier) == message.item.mods[modifier].arg

\* hasOwnProp(actions, message.action)
HasOwnProp(name) == name \in Actions

\* the operand of && or || is truthy: defined and not the empty string
Truthy(value) == value # <<>> /\ value[1] # ""

\* const arg = (isSuperMod && cmd.arg) || (isAltMod && alt.arg) || item.arg
Arg(message) ==
  IF message.isSuperMod /\ Truthy(GetOwnProp(message, "cmd"))
  THEN GetOwnProp(message, "cmd")[1]
  ELSE IF message.isAltMod /\ Truthy(GetOwnProp(message, "alt"))
  THEN GetOwnProp(message, "alt")[1]
  ELSE message.item.arg

\* execute: the handler of the action, when there is one, is applied to
\* [message, arg]
Execute(message) ==
  /\ ~MicrotaskQueued
  /\ executions' = Append(executions,
       [message |-> message,
        called |-> IF HasOwnProp(message.action)
                   THEN <<[action |-> message.action, message |-> message,
                           arg |-> Arg(message)]>>
                   ELSE <<>>])
  /\ UNCHANGED <<plugins, queries, sent, cache, details, stored, clipboard, timers, log>>

(***************************************************************************)
(* The debounced listeners.  debounce(fn, DEBOUNCE_TIME) is the helper of  *)
(* utils/helpers: a call replaces the pending timer of the handler by one  *)
(* that calls fn with the arguments of this call DEBOUNCE_TIME later.  A   *)
(* timer that is due fires before the clock advances and before another    *)
(* message is handled.                                                     *)
(***************************************************************************)
\* the events of the history
IpcEvent(h, args) == [ev |-> "ipc", h |-> h, args |-> args]
InvokeEvent(h, args) == [ev |-> "invoke", h |-> h, args |-> args]
TickEvent == [ev |-> "tick", h |-> "", args |-> [evt |-> 0, message |-> <<>>]]

\* the number of IPC messages and ticks so far
Arrivals == Cardinality({k \in 1..Len(log) : log[k].ev # "invoke"})

\* the event object of the next IPC message
NextEvt == 1 + Cardinality({k \in 1..Len(log) : log[k].ev = "ipc"})

\* the timer of handler h is pending / is due
Armed(h) == timers[h] # <<>>
Due(h) == Armed(h) /\ timers[h][1].remaining = 0
NoTimerDue == \A h \in Handlers : ~Due(h)

\* the debounced function: clearTimeout, then setTimeout(fn(args), DEBOUNCE_TIME)
Debounced(h, args) ==
  /\ timers' = [timers EXCEPT ![h] = <<[args |-> args, remaining |-> DEBOUNCE_TIME]>>]
  /\ log' = Append(log, IpcEvent(h, args))

\* a mutant of IpcQueryCommand: the listener calls handleQueryCommand itself
IpcQueryCommandUndebounced(message) ==
  /\ NoTimerDue
  /\ HandleQueryCommand(NextEvt, message.q)
  /\ log' = log \o <<IpcEvent("query", [evt |-> NextEvt, message |-> message]),
                     InvokeEvent("query", [evt |-> NextEvt, message |-> message])>>
  /\ UNCHANGED timers

\* ipcMain.on(IPC_QUERY_COMMAND, (evt, message) => debounceHandleQueryCommand(evt, message, plugins))
IpcQueryCommand(message) ==
  /\ NoTimerDue /\ ~MicrotaskQueued
  /\ Debounced("query", [evt |-> NextEvt, message |-> message])
  /\ UNCHANGED <<plugins, queries, sent, cache, details, stored, clipboard, executions>>

\* ipcMain.on(IPC_ITEM_DETAILS_REQUEST, (evt, item) => debounceHandleItemDetailsRequest(evt, item))
IpcItemDetailsRequest(item) ==
  /\ NoTimerDue /\ ~MicrotaskQueued
  /\ Debounced("details", [evt |-> NextEvt, message |-> item])
  /\ UNCHANGED <<plugins, queries, sent, cache, details, stored, clipboard, executions>>

\* ipcMain.on(IPC_COPY_CURRENT_ITEM, (evt, item) => debounceHandleCopyItemToClipboard(evt, item))
IpcCopyCurrentItem(item) ==
  /\ NoTimerDue /\ ~MicrotaskQueued
  /\ Debounced("copy", [evt |-> NextEvt, message |-> item])
  /\ UNCHANGED <<plugins, queries, sent, cache, details, stored, clipboard, executions>>

\* one tick of the clock while a timer is pending
Tick ==
  /\ NoTimerDue /\ ~MicrotaskQueued
  /\ \E h \in Handlers : Armed(h)
  /\ timers' = [h \in Handlers |->
       IF Armed(h) THEN <<[timers[h][1] EXCEPT !.remaining = @ - 1]>> ELSE <<>>]
  /\ log' = Append(log, TickEvent)
  /\ UNCHANGED <<plugins, queries, sent, cache, details, stored, clipboard, executions>>

\* the timer of handler h fires: the handler is called with the arguments of
\* the call that set the timer
TimerFire(h) ==
  /\ Due(h)
  /\ timers' = [timers EXCEPT ![h] = <<>>]
  /\ log' = Append(log, InvokeEvent(h, timers[h][1].args))
  /\ LET args == timers[h][1].args
     IN  CASE h = "query" -> HandleQueryCommand(args.evt, args.message.q)
           [] h = "details" -> HandleItemDetailsRequest(args.evt, args.message)
           [] h = "copy" -> HandleCopyItemToClipboard(args.evt, args.message)

(***************************************************************************)
(* Specifications.                                                         *)
(***************************************************************************)
\* The invocations of handleQueryCommand share no state but the plugin list,
\* which none of them writes: the specifications below follow one invocation.

\* the routing of one query, for every plugin list of up to MaxPlugins
InitRest ==
  /\ queries = <<>>
  /\ sent = <<>>
  /\ details = <<>>
  /\ stored = <<>>
  /\ clipboard = ""
  /\ timers = [h \in Handlers |-> <<>>]
  /\ log = <<>>
  /\ executions = <<>>

InitRoute ==
  /\ plugins \in SeqsUpTo(Descriptors, MaxPlugins)
  /\ cache = <<>>
  /\ InitRest

NextRoute ==
  \E phrase \in Phrases :
    queries = <<>> /\ HandleQueryCommand(1, phrase) /\ UNCHANGED <<timers, log>>

SpecRoute == InitRoute /\ [][NextRoute]_vars

\* the whole life of a query: routing, the provider promises, the callback
InitQuery ==
  /\ plugins \in QueryPluginLists
  /\ cache = <<>>
  /\ InitRest

DispatchQuery ==
  \E phrase \in QueryPhrases :
    queries = <<>> /\ HandleQueryCommand(1, phrase) /\ UNCHANGED <<timers, log>>

ProviderResolves ==
  \E q \in 1..Len(queries) : \E c \in 1..Len(queries[q].calls) :
    \E items \in SeqsUpTo(Items, MaxItems - Returned(queries[q].out, Len(queries[q].out))) :
      ProviderResolve(q, c, items)

ProviderRejects ==
  \E q \in 1..Len(queries) : \E c \in 1..Len(queries[q].calls) : ProviderReject(q, c)

RunCallback == \E q \in 1..Len(queries) : ThenCallback(q)

NextQuery == DispatchQuery \/ ProviderResolves \/ ProviderRejects \/ RunCallback

SpecQuery == InitQuery /\ [][NextQuery]_vars

\* the detail requests: the cache persists from one run of the app to the
\* next, so a run starts with no entry or with one left by an earlier run
InitDetail ==
  /\ plugins = ExamplePlugins
  /\ cache \in {<<>>} \cup
       {ConfigName(item) :> (CacheKey(item) :> html) :
          item \in DetailItems, html \in Contents}
  /\ InitRest

DispatchDetail ==
  \E item \in DetailItems :
    /\ Len(details) < MaxDetails
    /\ HandleItemDetailsRequest(1, item)
    /\ UNCHANGED <<timers, log>>

DetailResolves ==
  \E r \in 1..Len(details) : \E html \in Contents : DetailResolve(r, html)

DetailRejects == \E r \in 1..Len(details) : DetailReject(r)

RunDetailCallback == \E r \in 1..Len(details) : DetailCallback(r)

NextDetail == DispatchDetail \/ DetailResolves \/ DetailRejects \/ RunDetailCallback

SpecDetail == InitDetail /\ [][NextDetail]_vars

\* the debounced listeners, while the promises of the providers and of
\* retrieveItemDetails stay pending
InitDebounce ==
  /\ plugins = ExamplePlugins
  /\ cache = <<>>
  /\ InitRest

QueryCommandArrives ==
  \E message \in QueryMessages : Arrivals < MaxEvents /\ IpcQueryCommand(message)

DetailsRequestArrives ==
  \E item \in RequestedItems : Arrivals < MaxEvents /\ IpcItemDetailsRequest(item)

CopyArrives ==
  \E item \in CopyItems : Arrivals < MaxEvents /\ IpcCopyCurrentItem(item)

ClockTicks == Arrivals < MaxEvents /\ Tick

TimerFires == \E h \in Handlers : TimerFire(h)

NextDebounce ==
  QueryCommandArrives \/ DetailsRequestArrives \/ CopyArrives \/ ClockTicks \/ TimerFires

SpecDebounce == InitDebounce /\ [][NextDebounce]_vars

\* several queries in flight at once: the phrases route to one and to two
\* plugins, and a provider returns one item, with or without title
InFlightPhrases == {<<"calc">>, <<"gh">>}

InFlightResults ==
  [1..1 -> {item \in Items : item.title \in {"Calc", "calc"}} \cup UntitledItems]

InitInFlight ==
  /\ plugins = ExamplePlugins
  /\ cache = <<>>
  /\ InitRest

DispatchInFlight ==
  \E phrase \in InFlightPhrases :
    /\ Len(queries) < MaxQueries
    /\ HandleQueryCommand(Len(queries) + 1, phrase)
    /\ UNCHANGED <<timers, log>>

ResolveInFlight ==
  \E q \in 1..Len(queries) : \E c \in 1..Len(queries[q].calls) :
    \E items \in InFlightResults : ProviderResolve(q, c, items)

NextInFlight == DispatchInFlight \/ ResolveInFlight \/ ProviderRejects \/ RunCallback

SpecInFlight == InitInFlight /\ [][NextInFlight]_vars

\* the event loop runs a queued then-callback
FairInFlight == SpecInFlight /\ WF_vars(RunCallback)

\* the execute-item messages: the listener calls execute at once
InitExecute ==
  /\ plugins = ExamplePlugins
  /\ cache = <<>>
  /\ InitRest

ExecuteItemArrives ==
  \E message \in ExecuteMessages : Len(executions) < MaxExecutes /\ Execute(message)

NextExecute == ExecuteItemArrives

SpecExecute == InitExecute /\ [][NextExecute]_vars

(***************************************************************************)
(* Routing properties (SpecRoute).                                         *)
(***************************************************************************)
\* the first token of query q
TokenOf(q) == queries[q].fractions[1]

\* the plugins query q calls
CalledPlugins(q) == {queries[q].calls[c].plugin : c \in 1..Len(queries[q].calls)}

\* some loaded plugin declares the first token of query q as its keyword
TokenIsKeyword(q) == \E i \in 1..Len(plugins) : plugins[i].keyword = <<TokenOf(q)>>

\* the tokens after the first hold no character at all, so that joined and
\* trimmed they are the empty string
RestEmpty(q) == \A k \in 2..Len(queries[q].fractions) : queries[q].fractions[k] = ""

\* C1: when the first token of a query is the keyword of a loaded plugin,
\* every provider call of the query goes to a plugin whose keyword is that
\* token or is unset; a plugin with another keyword is never called.
C1_OnlyMatchingOrKeywordless ==
  \A q \in 1..Len(queries) :
    TokenIsKeyword(q) =>
      \A i \in CalledPlugins(q) : plugins[i].keyword \in {<<>>, <<TokenOf(q)>>}

\* C1 witness: a query whose token is a plugin's keyword has called that
\* plugin and a keyword-less one, and has left out a plugin with another keyword
C1_Witness ==
  \E q \in 1..Len(queries) :
    /\ \E i \in CalledPlugins(q) : plugins[i].keyword = <<TokenOf(q)>>
    /\ \E i \in CalledPlugins(q) : plugins[i].keyword = <<>>
    /\ \E i \in 1..Len(plugins) :
         /\ plugins[i].keyword \notin {<<>>, <<TokenOf(q)>>}
         /\ i \notin CalledPlugins(q)

\* every call of query q is queryResults with the full token list, and the
\* plugins in S are called once each and no other plugin is called
ResultsCallsExactlyOn(q, S) ==
  /\ CalledPlugins(q) = S
  /\ Len(queries[q].calls) = Cardinality(S)
  /\ \A c \in 1..Len(queries[q].calls) :
       /\ queries[q].calls[c].fn = "queryResults"
       /\ queries[q].calls[c].args = queries[q].fractions

CalledOnceThrough(q, i, fn) ==
  /\ Cardinality({c \in 1..Len(queries[q].calls) : queries[q].calls[c].plugin = i}) = 1
  /\ \A c \in 1..Len(queries[q].calls) :
       queries[q].calls[c].plugin = i => queries[q].calls[c].fn = fn

C4_Query(q) == plugins = ExamplePlugins /\ queries[q].fractions = <<"calc", "2+2">>

\* C4 as stated: with the plugins [core without keyword, keyword "calc"] and
\* the query "calc 2+2", the only provider call is queryResults on the calc
\* plugin with ["2+2"].
C4_OnlyCalcQueried ==
  \A q \in 1..Len(queries) :
    C4_Query(q) =>
      queries[q].calls =
        <<[plugin |-> 2, fn |-> "queryResults", args |-> <<"2+2">>]>>

\* C4 amended: with the plugins [core without keyword, keyword "calc"] and the
\* query "calc 2+2", there are exactly two provider calls: queryResults on the
\* core plugin with ["calc", "2+2"], then queryResults on the calc plugin with
\* ["2+2"].
C4_CoreAndCalcQueried ==
  \A q \in 1..Len(queries) :
    C4_Query(q) =>
      queries[q].calls =
        <<[plugin |-> 1, fn |-> "queryResults", args |-> <<"calc", "2+2">>],
          [plugin |-> 2, fn |-> "queryResults", args |-> <<"2+2">>]>>

\* C4 witness: the query of the example has been handled
C4_Witness == \E q \in 1..Len(queries) : C4_Query(q) /\ Len(queries[q].calls) > 0

(***************************************************************************)
(* Ranking properties (SpecQuery).                                         *)
(***************************************************************************)
\* the query responses sent so far
Responses == {sent[k] : k \in {j \in 1..Len(sent) : sent[j].channel = "IPC_QUERY_RESULTS"}}

\* the provider results of a query, plugins in call order, each plugin's
\* items in its own order
RECURSIVE Concatenation(_)
Concatenation(out) ==
  IF out = <<>> THEN <<>> ELSE out[1].items \o Concatenation(Tail(out))

Merged(q) == Concatenation(queries[q].out)

\* the score of an item of query q against the first token
ScoreIn(q, item) == Score(item, TokenOf(q))

\* s is the start of t
IsPrefix(s, t) == Len(s) <= Len(t) /\ SubSeq(t, 1, Len(s)) = s

\* the scores that pass the relevance filter
Qualifies(score) == score = 0 \/ score > 250

\* C5: when a query is routed to no plugin, no provider call is made and,
\* once the query has been processed, a response with the empty sequence has
\* been delivered for it.
C5_EmptyRouteDeliversEmpty ==
  \A q \in 1..Len(queries) :
    (queries[q].calls = <<>> /\ queries[q].status # "waiting") =>
      \E m \in Responses : m.id = q /\ m.payload = <<>>

\* C6: the items of a delivered response are in non-increasing order of
\* score, and items of equal score are in the order they have in the
\* concatenation of the provider results.
C6_SortedAndStable ==
  \A m \in Responses :
    /\ \A i, j \in 1..Len(m.payload) :
         i < j => ScoreIn(m.id, m.payload[i]) >= ScoreIn(m.id, m.payload[j])
    /\ \A k \in 1..Len(m.payload) :
         LET Same(item) == ScoreIn(m.id, item) = ScoreIn(m.id, m.payload[k])
         IN  IsPrefix(SelectSeq(m.payload, Same), SelectSeq(Merged(m.id), Same))

\* C6 witness: two providers returned three items; the response holds the
\* two of equal score, which differ, in the order of the concatenation, and
\* the item of lower score that preceded them there is behind them
C6_Witness ==
  \E m \in Responses :
    /\ Len(queries[m.id].calls) = 2
    /\ Len(queries[m.id].out[1].items) = 2
    /\ Len(queries[m.id].out[2].items) = 1
    /\ m.payload = SubSeq(Merged(m.id), 2, 3)
    /\ m.payload[1] # m.payload[2]
    /\ ScoreIn(m.id, m.payload[1]) = ScoreIn(m.id, m.payload[2])
    /\ ScoreIn(m.id, Merged(m.id)[1]) < ScoreIn(m.id, m.payload[1])

\* C7: no item of a delivered response has a score s with 0 < s <= 0.25, and
\* every returned item with s = 0 or s > 0.25 is in the response unless the
\* truncation to MAX_RESULTS removed it.
C7_RelevanceFilter ==
  \A m \in Responses :
    LET merged == Merged(m.id)
        passing == {i \in 1..Len(merged) : Qualifies(ScoreIn(m.id, merged[i]))}
    IN  /\ \A k \in 1..Len(m.payload) : Qualifies(ScoreIn(m.id, m.payload[k]))
        /\ Len(m.payload) =
             (IF Cardinality(passing) < MAX_RESULTS THEN Cardinality(passing)
              ELSE MAX_RESULTS)
        /\ \A t \in {merged[i].title : i \in passing} :
             Cardinality(passing) <= MAX_RESULTS =>
               Cardinality({k \in 1..Len(m.payload) : m.payload[k].title = t})
                 = Cardinality({i \in passing : merged[i].title = t})

\* C7 witness: the providers returned an item of score 0.25, one of score 0
\* and one above 0.25; the response holds the last two and not the first
C7_Witness ==
  \E m \in Responses :
    /\ \E i \in 1..Len(Merged(m.id)) : ScoreIn(m.id, Merged(m.id)[i]) = 250
    /\ \E k \in 1..Len(m.payload) : ScoreIn(m.id, m.payload[k]) = 0
    /\ \E k \in 1..Len(m.payload) : ScoreIn(m.id, m.payload[k]) > 250

\* the place of item i of merged in the sorted, filtered sequence
PlaceIn(q, merged, i) ==
  1 + Cardinality({j \in 1..Len(merged) :
        /\ Qualifies(ScoreIn(q, merged[j]))
        /\ \/ ScoreIn(q, merged[j]) > ScoreIn(q, merged[i])
           \/ ScoreIn(q, merged[j]) = ScoreIn(q, merged[i]) /\ j < i})

\* C8: a delivered response has at most MAX_RESULTS items, and when more
\* items qualify it is the first MAX_RESULTS items of the sorted, filtered
\* sequence.
C8_AtMostMaxResults ==
  \A m \in Responses :
    LET merged == Merged(m.id)
        passing == {i \in 1..Len(merged) : Qualifies(ScoreIn(m.id, merged[i]))}
    IN  /\ Len(m.payload) <= MAX_RESULTS
        /\ Cardinality(passing) > MAX_RESULTS =>
             /\ Len(m.payload) = MAX_RESULTS
             /\ \A i \in passing :
                  PlaceIn(m.id, merged, i) <= MAX_RESULTS =>
                    m.payload[PlaceIn(m.id, merged, i)] = merged[i]

\* C8 witness: more than MAX_RESULTS items qualified and the response was cut
C8_Witness ==
  \E m \in Responses :
    /\ Cardinality({i \in 1..Len(Merged(m.id)) :
          Qualifies(ScoreIn(m.id, Merged(m.id)[i]))}) > MAX_RESULTS
    /\ Len(m.payload) = MAX_RESULTS
    /\ Len(queries[m.id].calls) > 1

(***************************************************************************)
(* Detail cache properties (SpecDetail).                                   *)
(***************************************************************************)
\* the detail responses sent so far
DetailResponses ==
  {sent[k] : k \in {j \in 1..Len(sent) : sent[j].channel = "IPC_ITEM_DETAILS_RESPONSE"}}

\* C9: a detail request dispatched after a request with the identical payload
\* has resolved and been stored does not call retrieveItemDetails, and the
\* response it delivers is the content stored for that payload.
C9_StoredPayloadServedFromCache ==
  \A r \in 1..Len(details) :
    details[r].seen # <<>> =>
      /\ ~details[r].retrieved
      /\ details[r].status \in {"queued", "delivered"}
      /\ details[r].content = details[r].seen
      /\ \A m \in DetailResponses : m.id = r => m.payload = details[r].seen[1]

\* C9 witness: a request has been answered from the cache with the content an
\* earlier request retrieved and stored, while the cache holds another
\* content for another payload of the same plugin base name
C9_Witness ==
  \E r \in 1..Len(details) : \E m \in DetailResponses :
    /\ m.id = r
    /\ details[r].seen = <<m.payload>>
    /\ ~details[r].retrieved
    /\ \E e \in 1..(r - 1) :
         /\ details[e].item = details[r].item
         /\ details[e].retrieved
         /\ details[e].status = "delivered"
    /\ \E other \in DOMAIN stored :
         /\ ConfigName(other) = ConfigName(details[r].item)
         /\ stored[other] # m.payload

(***************************************************************************)
(* Debounce properties (SpecDebounce).                                     *)
(***************************************************************************)
\* the places of the history where handler h was called through its
\* debounced function, and where the handler itself was invoked
CallsOf(h) == {k \in 1..Len(log) : log[k].ev = "ipc" /\ log[k].h = h}
InvokesOf(h) == {k \in 1..Len(log) : log[k].ev = "invoke" /\ log[k].h = h}

\* the clock ticks between two places of the history
TicksBetween(a, b) == Cardinality({k \in (a + 1)..(b - 1) : log[k].ev = "tick"})

\* the place of the call of h that follows place c, or the end of the history
NextCallOf(h, c) ==
  IF \E k \in CallsOf(h) : k > c
  THEN CHOOSE k \in CallsOf(h) : k > c /\ \A j \in CallsOf(h) : j > c => k <= j
  ELSE Len(log) + 1

\* the n-th invocation of handler h in the history
NthInvokeOf(h, n) ==
  log[CHOOSE k \in InvokesOf(h) : Cardinality({j \in InvokesOf(h) : j <= k}) = n]

\* the text to copy for an item: its text.copy when it has one that is not
\* empty, else its arg
CopyTextOf(item) ==
  IF \E t \in DOMAIN item.text : \E c \in DOMAIN item.text[t].copy : item.text[t].copy[c] # ""
  THEN item.text[1].copy[1]
  ELSE item.arg

\* C10: the debounced calls of a handler that follow one another within less
\* than DEBOUNCE_TIME produce one invocation of the handler, DEBOUNCE_TIME
\* after the last of them and with its event and message; this holds for the
\* query, the detail-request and the copy handlers.
C10_OneInvocationPerBurst ==
  /\ \A h \in Handlers :
       /\ \A k \in InvokesOf(h) : \E c \in CallsOf(h) :
            /\ c < k /\ NextCallOf(h, c) > k
            /\ log[k].args = log[c].args
            /\ TicksBetween(c, k) = DEBOUNCE_TIME
       /\ \A c \in CallsOf(h) :
            LET next == NextCallOf(h, c)
                fired == Cardinality({k \in InvokesOf(h) : c < k /\ k < next})
            IN  /\ fired <= 1
                /\ TicksBetween(c, next) < DEBOUNCE_TIME => fired = 0
                /\ (TicksBetween(c, next) >= DEBOUNCE_TIME /\ fired = 0) =>
                     /\ next = Len(log) + 1
                     /\ TicksBetween(c, next) = DEBOUNCE_TIME
                     /\ Due(h)
  /\ Len(queries) = Cardinality(InvokesOf("query"))
  /\ \A n \in 1..Len(queries) :
       /\ queries[n].evt = NthInvokeOf("query", n).args.evt
       /\ queries[n].fractions = Split(NthInvokeOf("query", n).args.message.q)
  /\ Len(details) = Cardinality(InvokesOf("details"))
  /\ \A n \in 1..Len(details) :
       /\ details[n].evt = NthInvokeOf("details", n).args.evt
       /\ details[n].item = NthInvokeOf("details", n).args.message
  /\ IF InvokesOf("copy") = {}
     THEN clipboard = ""
     ELSE LET item == NthInvokeOf("copy", Cardinality(InvokesOf("copy"))).args.message
          IN  clipboard = CopyTextOf(item)

\* C10 witness: two query commands with different messages arrived one tick
\* apart, and handleQueryCommand was invoked once, for the second of them,
\* DEBOUNCE_TIME after it
C10_Witness ==
  \E a, b \in CallsOf("query") : \E k \in InvokesOf("query") :
    /\ a < b /\ b < k
    /\ TicksBetween(a, b) = 1
    /\ log[a].args.message # log[b].args.message
    /\ InvokesOf("query") = {k}
    /\ log[k].args = log[b].args
    /\ Len(queries) = 1
    /\ queries[1].evt = log[b].args.evt

(***************************************************************************)
(* Failure of a provider (SpecQuery).                                      *)
(***************************************************************************)
\* a provider call of query q has rejected
SomeRejected(q) ==
  \E c \in 1..Len(queries[q].out) : queries[q].out[c].st = "rejected"

\* C11: when a provider call of a query rejects, no response is delivered
\* for that query, neither one built from the providers that resolved nor an
\* empty one.
C11_RejectionDeliversNothing ==
  \A q \in 1..Len(queries) :
    SomeRejected(q) => \A m \in Responses : m.id # q

\* C11 witness: of the two provider calls of a query one rejected and the
\* other resolved with items, in either order, and nothing was sent
C11_Witness ==
  \E q \in 1..Len(queries) :
    /\ Len(queries[q].out) = 2
    /\ SomeRejected(q)
    /\ \E c \in 1..2 :
         queries[q].out[c].st = "resolved" /\ queries[q].out[c].items # <<>>
    /\ sent = <<>>

(***************************************************************************)
(* Arguments of the provider calls (SpecRoute).                            *)
(***************************************************************************)
\* C13: in every provider call, a plugin without keyword is passed the full
\* token list; a plugin whose keyword is the first token and that is asked
\* for results is passed the tokens after the first; a plugin asked for its
\* helper is passed the first token itself.
C13_ArgumentsByKeywordAndMode ==
  \A q \in 1..Len(queries) : \A c \in 1..Len(queries[q].calls) :
    LET call == queries[q].calls[c]
        p == plugins[call.plugin]
    IN  /\ p.keyword = <<>> =>
             call.fn = "queryResults" /\ call.args = queries[q].fractions
        /\ (p.keyword = <<TokenOf(q)>> /\ call.fn = "queryResults") =>
             call.args = Tail(queries[q].fractions)
        /\ call.fn = "queryHelper" => call.args = <<TokenOf(q)>>

\* C13 witness: one query of two tokens has made the three kinds of call: to
\* a plugin without keyword with both tokens, to a core plugin of the keyword
\* with the second token, and to the helper of a plugin of the keyword
C13_Witness ==
  \E q \in 1..Len(queries) :
    /\ Len(queries[q].fractions) = 2
    /\ \E c \in 1..Len(queries[q].calls) :
         /\ plugins[queries[q].calls[c].plugin].keyword = <<>>
         /\ queries[q].calls[c].args = queries[q].fractions
    /\ \E c \in 1..Len(queries[q].calls) :
         /\ plugins[queries[q].calls[c].plugin].keyword = <<TokenOf(q)>>
         /\ queries[q].calls[c].fn = "queryResults"
         /\ queries[q].calls[c].args = <<queries[q].fractions[2]>>
    /\ \E c \in 1..Len(queries[q].calls) :
         /\ queries[q].calls[c].fn = "queryHelper"
         /\ queries[q].calls[c].args = <<TokenOf(q)>>

(***************************************************************************)
(* The join of the provider calls (SpecQuery).                             *)
(***************************************************************************)
\* the plugins query q is routed to
Routed(q) ==
  {i \in 1..Len(plugins) : plugins[i].keyword \in {<<>>, <<TokenOf(q)>>}}

\* C14: for every dispatched query each routed plugin is called exactly
\* once, every provider call of the query is issued before a provider result
\* is consumed, and the response of the query is delivered only when every
\* provider call of the query has resolved.
C14_AllIssuedAllAwaited ==
  \A q \in 1..Len(queries) :
    /\ CalledPlugins(q) = Routed(q)
    /\ \A i \in Routed(q) :
         Cardinality({c \in 1..Len(queries[q].calls) : queries[q].calls[c].plugin = i}) = 1
    /\ DOMAIN queries[q].out = DOMAIN queries[q].calls
    /\ \A m \in Responses :
         m.id = q => \A c \in 1..Len(queries[q].out) : queries[q].out[c].st = "resolved"

\* C14 witness: a query called two plugins, the second call resolved before
\* the first, and the response was delivered after both
C14_Witness ==
  \E m \in Responses :
    /\ queries[m.id].done = <<2, 1>>
    /\ Cardinality(Routed(m.id)) = 2
    /\ m.payload # <<>>

(***************************************************************************)
(* Queries in flight (SpecInFlight, FairInFlight).                         *)
(***************************************************************************)
\* every provider call of query q has resolved
Completed(q) ==
  \A c \in 1..Len(queries[q].out) : queries[q].out[c].st = "resolved"

\* C12: when the merged provider results of a query hold an item without
\* title together with items that have one, then once the query is processed
\* a response has been delivered for it, in which the titled items are in
\* non-increasing order of score and no untitled item precedes a titled one.
C12_UntitledItemTolerated ==
  \A q \in 1..Len(queries) :
    ( /\ Completed(q)
      /\ queries[q].status # "waiting"
      /\ \E i \in 1..Len(Merged(q)) : "title" \notin DOMAIN Merged(q)[i]
      /\ \E i \in 1..Len(Merged(q)) : "title" \in DOMAIN Merged(q)[i] ) =>
      \E m \in Responses :
        /\ m.id = q
        /\ \A i, j \in 1..Len(m.payload) :
             i < j =>
               IF "title" \in DOMAIN m.payload[i]
               THEN "title" \in DOMAIN m.payload[j] =>
                      ScoreIn(q, m.payload[i]) >= ScoreIn(q, m.payload[j])
               ELSE "title" \notin DOMAIN m.payload[j]

\* two queries were given the same tokens and the same result array by each
\* of their providers
SameInputs(a, b) ==
  /\ queries[a].fractions = queries[b].fractions
  /\ queries[a].calls = queries[b].calls
  /\ queries[a].out = queries[b].out

\* C15: two queries of the same tokens over the same plugin list whose
\* providers returned the same arrays are delivered the same sequence,
\* whatever the order in which their provider calls completed.
C15_SameResponseForEveryCompletionOrder ==
  \A m, n \in Responses : SameInputs(m.id, n.id) => m.payload = n.payload

\* C15 witness: two queries with the same inputs, whose two providers
\* returned different items of equal score, completed in opposite orders and
\* were delivered both items
C15_Witness ==
  \E m, n \in Responses :
    /\ SameInputs(m.id, n.id)
    /\ queries[m.id].done = <<1, 2>>
    /\ queries[n.id].done = <<2, 1>>
    /\ queries[m.id].out[1].items # queries[m.id].out[2].items
    /\ Len(m.payload) = 2
    /\ m.payload = n.payload

\* every provider call of query q has resolved, with items that have a
\* title, and there is at least one call
WellResolved(q) ==
  /\ queries[q].calls # <<>>
  /\ Completed(q)
  /\ \A i \in 1..Len(Merged(q)) : "title" \in DOMAIN Merged(q)[i]

\* C17: a query that is routed to at least one plugin and whose provider
\* calls have all resolved with well-formed items is eventually delivered its
\* response, also when newer queries are dispatched while it is in flight.
C17_InFlightQueryDelivered ==
  \A q \in 1..MaxQueries :
    (q <= Len(queries) /\ WellResolved(q)) ~> (\E m \in Responses : m.id = q)

\* C17 witness: the first query was still in flight when the second was
\* dispatched and delivered, and then the first was delivered too
C17_Witness ==
  /\ Len(sent) = 2
  /\ sent[1].id = 2 /\ sent[2].id = 1
  /\ sent[2].payload # <<>>
  /\ queries[1].fractions # queries[2].fractions

\* the then-callback of query q is due: every provider call has resolved and
\* the callback has not run
Ready(q) == queries[q].status = "waiting" /\ Completed(q)

\* C18: the response of a query is delivered in the step that follows the
\* resolution of its last provider call, whether or not queries dispatched
\* before it are still waiting; so responses come in the order of completion
\* and not of dispatch.
C18_DeliveredOnCompletion ==
  [][(\E q \in 1..Len(queries) : Ready(q)) =>
       (\E q \in 1..Len(queries) : Ready(q) /\ queries'[q].status # "waiting")]_vars

\* C18 witness: query 1 was dispatched before query 2, the response of
\* query 2 was delivered first and the response of query 1 after it, so the
\* last response received is not the one of the last query dispatched
C18_Witness ==
  \E i, j \in 1..Len(sent) :
    /\ i < j /\ j = Len(sent)
    /\ sent[i].channel = "IPC_QUERY_RESULTS" /\ sent[j].channel = "IPC_QUERY_RESULTS"
    /\ sent[i].id > sent[j].id
    /\ sent[j].id < Len(queries)
    /\ sent[j].to # sent[i].to

(***************************************************************************)
(* Concurrent detail requests (SpecDetail).                                *)
(***************************************************************************)
\* the places in sent of the detail responses for an item
ResponsesFor(item) ==
  {k \in 1..Len(sent) :
     /\ sent[k].channel = "IPC_ITEM_DETAILS_RESPONSE"
     /\ details[sent[k].id].item = item}

\* the last detail response delivered for an item
LastResponseFor(item) ==
  sent[CHOOSE k \in ResponsesFor(item) : \A j \in ResponsesFor(item) : j <= k]

\* C16: two requests for the same uncached payload dispatched before either
\* resolution completes can both miss the cache and both call
\* retrieveItemDetails (the witness); the value the cache then holds for the
\* key is the one written by the resolution that completed last.
C16_LastCompletionWins ==
  \A item \in DetailItems :
    ResponsesFor(item) # {} =>
      /\ CacheKey(item) \in DOMAIN cache[ConfigName(item)]
      /\ cache[ConfigName(item)][CacheKey(item)] = LastResponseFor(item).payload

\* C16 witness: the first two requests are for the same payload, both
\* missed the cache and called retrieveItemDetails, they resolved with
\* different contents, the second completed first, and the cache holds the
\* content of the first, which completed last
C16_Witness ==
  /\ Len(details) >= 2
  /\ details[1].item = details[2].item
  /\ details[1].retrieved /\ details[2].retrieved
  /\ details[1].status = "delivered" /\ details[2].status = "delivered"
  /\ details[1].content # details[2].content
  /\ \E i, j \in 1..Len(sent) : i < j /\ sent[i].id = 2 /\ sent[j].id = 1
  /\ cache[ConfigName(details[1].item)][CacheKey(details[1].item)] = details[1].content[1]
  /\ \A r \in 3..Len(details) : details[r].item # details[1].item

\* the then-callback of detail request r runs in this step
Delivering(r) ==
  details[r].status = "queued" /\ details'[r].status = "delivered"

\* C19: the step that delivers the response of a detail request has written
\* its content to the cache under the key of the request, and in every state
\* where a detail response has been delivered the cache holds an entry for
\* the key of its request.
C19_StoredBeforeDelivered ==
  /\ [](\A m \in DetailResponses :
          /\ ConfigName(details[m.id].item) \in DOMAIN cache
          /\ CacheKey(details[m.id].item) \in DOMAIN cache[ConfigName(details[m.id].item)])
  /\ [][\A r \in 1..Len(details) :
          Delivering(r) =>
            /\ ConfigName(details[r].item) \in DOMAIN cache'
            /\ CacheKey(details[r].item) \in DOMAIN cache'[ConfigName(details[r].item)]
            /\ cache'[ConfigName(details[r].item)][CacheKey(details[r].item)]
                 = details[r].content[1]
            /\ sent' = Append(sent,
                 [channel |-> "IPC_ITEM_DETAILS_RESPONSE", to |-> details[r].evt,
                  id |-> r, payload |-> details[r].content[1]])]_vars

\* C19 witness: a request missed the cache, its content resolved, and its
\* response was delivered with the content now in the cache, next to the
\* entry of another payload
C19_Witness ==
  \E m \in DetailResponses :
    /\ details[m.id].retrieved
    /\ details[m.id].seen = <<>>
    /\ cache[ConfigName(details[m.id].item)][CacheKey(details[m.id].item)] = m.payload
    /\ Cardinality(DOMAIN cache[ConfigName(details[m.id].item)]) = 2

(***************************************************************************)
(* Execution properties (SpecExecute).                                     *)
(***************************************************************************)
\* the argument the priority of the modifiers selects: the argument of the
\* super modifier when isSuperMod is set and the item has one, else the
\* argument of the alt modifier when isAltMod is set and the item has one,
\* else the argument of the item
ArgByPriority(message) ==
  IF message.isSuperMod /\ message.item.mods.cmd.arg # <<>>
  THEN message.item.mods.cmd.arg[1]
  ELSE IF message.isAltMod /\ message.item.mods.alt.arg # <<>>
  THEN message.item.mods.alt.arg[1]
  ELSE message.item.arg

\* C20: for every execute-item message whose action names a registered
\* handler, the handler is called once with the argument the priority of the
\* modifiers selects; when the action names no registered handler, no handler
\* is called.
C20_HandlerCalledByPriority ==
  \A e \in 1..Len(executions) :
    LET message == executions[e].message
    IN  IF message.action \in Actions
        THEN executions[e].called =
               <<[action |-> message.action, message |-> message,
                  arg |-> ArgByPriority(message)]>>
        ELSE executions[e].called = <<>>

=============================================================================
